---- MODULE Spec2Model ----
(***************************************************************************)
(* HashMap<KeyType, ValueType, Hash> of src/hash_map.h: an open-addressing *)
(* table with Robin Hood displacement, a dense iteration index and a       *)
(* grow-by-four rebuild.  KeyType and ValueType are int, ValueType() is 0. *)
(* Every public member function is one atomic action; the private member   *)
(* functions are operators on the record of the object's fields.           *)
(***************************************************************************)
EXTENDS Integers, Sequences, FiniteSets, TLC

\* ------------------------------------------------------------ constants
DEFAULT_SIZE == 64
MAX_LOAD_FACTOR == 80
MAX_LOAD_FACTOR_ON_REBUILD == 50
SIZE_INCREASING_ON_REBUILD == 4

\* ------------------------------------------------------------ bounds
\* Number of filler keys, bulk-loaded in ascending order.
MaxFill == 49
\* Constructors are given at most MaxInput pairs besides the filler pairs.
MaxInput == 3
\* Calls made on a table under SpecCtor.
MaxCalls == 2

\* ------------------------------------------------------------ inputs
\* Keys on which every operation is tried.  Under Hash, in a 64-slot table
\* 63, 255 and 511 share home slot 63 and probe on into slot 0, the home of
\* key 0; in a 256-slot table 255 and 511 share home slot 255 and wrap around
\* to slot 0.
FreeKeys == {63, 255, 511, 0}
\* The n-th filler key: runs of six consecutive home slots from slot 3 on,
\* one slot left free between two runs.
FillKey(n) == 3 + (n - 1) + ((n - 1) \div 6)
FillKeys == {FillKey(n) : n \in 1 .. MaxFill}
FillValue(k) == k * 2
Keys == FreeKeys \cup FillKeys

\* ValueType() and KeyType(): value-initialised ints.
DefaultValue == 0
DefaultKey == 0

\* The value insert() is called with on a free key.  No member function reads,
\* compares or computes with a value: one value that differs from ValueType()
\* and from every FillValue tells a kept value from an overwritten one.
Values == {1}
\* ref[k] of a key the map does not hold.
Absent == 0 - 1

\* The sequences handed to the range and initializer_list constructors: at
\* most MaxInput pairs of a key of CtorKeys and a value, a key possibly more
\* than once, alone or after the filler pairs in ascending order.
CtorKeys == {0, 63}
Pairs == {[first |-> k, second |-> v] : k \in CtorKeys, v \in {DefaultValue} \cup Values}
FillPairs == [n \in 1 .. MaxFill |-> [first |-> FillKey(n), second |-> FillValue(FillKey(n))]]
ShortInputs == UNION {[1 .. n -> Pairs] : n \in 0 .. MaxInput}
Inputs == ShortInputs \cup {FillPairs \o s : s \in ShortInputs}

\* The injected hash function object hash_: the identity on integers.
Hash(key) == key

VARIABLES
    size_,                          \* capacity
    element_count_,
    data_,                          \* slot -> [first |-> key, second |-> value]
    psl_,                           \* slot -> probe sequence length
    free_places_,                   \* slot -> BOOLEAN
    index_in_element_positions_,    \* slot -> index in element_positions_
    element_positions_,             \* sequence of occupied slots (0-based in the code)
    op,                             \* the public member function called last
    key,                            \* its key argument
    value,                          \* its value argument
    ret,                            \* what it returned (erase: the slot i it looked up)
    thrown,                         \* whether it threw std::out_of_range
    input,                          \* the sequence a constructor was given
    ref,                            \* key -> the value a map holds for it, or Absent
    calls,                          \* member function calls counted since construction
    old                             \* size_ and element_count_ when the last call was made

vars == <<size_, element_count_, data_, psl_, free_places_,
          index_in_element_positions_, element_positions_,
          op, key, value, ret, thrown, input, ref, calls, old>>

\* The object's fields as one record.
Self ==
    [size_ |-> size_, element_count_ |-> element_count_, data_ |-> data_,
     psl_ |-> psl_, free_places_ |-> free_places_,
     index_in_element_positions_ |-> index_in_element_positions_,
     element_positions_ |-> element_positions_]

\* i + 1 with the wrap at size_ of the probing loops.
NextSlot(t, i) == IF i + 1 = t.size_ THEN 0 ELSE i + 1

\* ------------------------------------------------------------ private members
\* Init with free_places_ = std::vector<bool>(size): every flag false.
Init_NoneFree(size) ==
    [size_ |-> size,
     element_count_ |-> 0,
     data_ |-> [i \in 0 .. (size - 1) |-> [first |-> DefaultKey, second |-> DefaultValue]],
     psl_ |-> [i \in 0 .. (size - 1) |-> 0],
     free_places_ |-> [i \in 0 .. (size - 1) |-> FALSE],
     index_in_element_positions_ |-> [i \in 0 .. (size - 1) |-> 0],
     element_positions_ |-> << >>]

Init_(size) ==
    [size_ |-> size,
     element_count_ |-> 0,
     data_ |-> [i \in 0 .. (size - 1) |-> [first |-> DefaultKey, second |-> DefaultValue]],
     psl_ |-> [i \in 0 .. (size - 1) |-> 0],
     free_places_ |-> [i \in 0 .. (size - 1) |-> TRUE],
     index_in_element_positions_ |-> [i \in 0 .. (size - 1) |-> 0],
     element_positions_ |-> << >>]

RECURSIVE GetKeyIndexLoop(_, _, _)
GetKeyIndexLoop(t, k, i) ==
    IF t.free_places_[i] THEN i
    ELSE IF t.data_[i].first = k THEN i
    ELSE GetKeyIndexLoop(t, k, NextSlot(t, i))

GetKeyIndex(t, k) == GetKeyIndexLoop(t, k, Hash(k) % t.size_)

InsertByIndex(t, i, k, v, psl) ==
    IF t.free_places_[i]
    THEN [t EXCEPT !.element_count_ = @ + 1,
                   !.index_in_element_positions_[i] = Len(t.element_positions_),
                   !.element_positions_ = Append(@, i),
                   !.free_places_[i] = FALSE,
                   !.data_[i] = [first |-> k, second |-> v],
                   !.psl_[i] = psl]
    ELSE [t EXCEPT !.data_[i].second = v]

IsCoolLoad(t, size, load_factor) == t.element_count_ * 100 < load_factor * size

\* RobinHoodLoop with data_[i] = to_insert in place of std::swap(data_[i],
\* to_insert): the resident is overwritten, not carried on.
RECURSIVE RobinHoodLoopOverwrite(_, _, _, _, _)
RobinHoodLoopOverwrite(t, to_insert, current_psl, answer_i, i) ==
    IF t.free_places_[i]
    THEN [t |-> InsertByIndex(t, i, to_insert.first, to_insert.second, current_psl),
          i |-> IF answer_i = -1 THEN i ELSE answer_i]
    ELSE IF t.psl_[i] < current_psl
         THEN RobinHoodLoopOverwrite(
                  [t EXCEPT !.data_[i] = to_insert, !.psl_[i] = current_psl],
                  to_insert, t.psl_[i] + 1,
                  IF answer_i = -1 THEN i ELSE answer_i,
                  NextSlot(t, i))
         ELSE RobinHoodLoopOverwrite(t, to_insert, current_psl + 1, answer_i,
                                     NextSlot(t, i))

\* RobinHoodLoop returning i, the slot occupied last, in place of answer_i.
RECURSIVE RobinHoodLoopLastSlot(_, _, _, _, _)
RobinHoodLoopLastSlot(t, to_insert, current_psl, answer_i, i) ==
    IF t.free_places_[i]
    THEN [t |-> InsertByIndex(t, i, to_insert.first, to_insert.second, current_psl),
          i |-> i]
    ELSE IF t.psl_[i] < current_psl
         THEN RobinHoodLoopLastSlot(
                  [t EXCEPT !.data_[i] = to_insert, !.psl_[i] = current_psl],
                  t.data_[i], t.psl_[i] + 1, answer_i, NextSlot(t, i))
         ELSE RobinHoodLoopLastSlot(t, to_insert, current_psl + 1, answer_i,
                                    NextSlot(t, i))

\* RobinHoodLoop without the displacement: plain linear probing to the first
\* free slot.
RECURSIVE RobinHoodLoopNoSwap(_, _, _, _, _)
RobinHoodLoopNoSwap(t, to_insert, current_psl, answer_i, i) ==
    IF t.free_places_[i]
    THEN [t |-> InsertByIndex(t, i, to_insert.first, to_insert.second, current_psl),
          i |-> i]
    ELSE RobinHoodLoopNoSwap(t, to_insert, current_psl + 1, answer_i, NextSlot(t, i))

\* RobinHoodLoop without std::swap(psl_[i], current_psl): the elements change
\* places, the probe lengths do not.
RECURSIVE RobinHoodLoopKeepPsl(_, _, _, _, _)
RobinHoodLoopKeepPsl(t, to_insert, current_psl, answer_i, i) ==
    IF t.free_places_[i]
    THEN [t |-> InsertByIndex(t, i, to_insert.first, to_insert.second, current_psl),
          i |-> IF answer_i = -1 THEN i ELSE answer_i]
    ELSE IF t.psl_[i] < current_psl
         THEN RobinHoodLoopKeepPsl([t EXCEPT !.data_[i] = to_insert],
                                   t.data_[i], current_psl + 1,
                                   IF answer_i = -1 THEN i ELSE answer_i,
                                   NextSlot(t, i))
         ELSE RobinHoodLoopKeepPsl(t, to_insert, current_psl + 1, answer_i,
                                   NextSlot(t, i))

\* The loop of RobinHoodGetKeyIndex; answer_i = -1 until the first swap.
RECURSIVE RobinHoodLoop(_, _, _, _, _)
RobinHoodLoop(t, to_insert, current_psl, answer_i, i) ==
    IF t.free_places_[i]
    THEN [t |-> InsertByIndex(t, i, to_insert.first, to_insert.second, current_psl),
          i |-> IF answer_i = -1 THEN i ELSE answer_i]
    ELSE IF t.psl_[i] < current_psl
         THEN RobinHoodLoop([t EXCEPT !.data_[i] = to_insert, !.psl_[i] = current_psl],
                            t.data_[i], t.psl_[i] + 1,
                            IF answer_i = -1 THEN i ELSE answer_i,
                            NextSlot(t, i))
         ELSE RobinHoodLoop(t, to_insert, current_psl + 1, answer_i, NextSlot(t, i))

\* Returns the table after placement and the index reported to the caller.
RobinHoodGetKeyIndex(t, k, v) ==
    RobinHoodLoop(t, [first |-> k, second |-> v], 1, -1, Hash(k) % t.size_)

\* NewSize growing by a factor of two.
RECURSIVE NewSizeDouble(_, _)
NewSizeDouble(t, size) ==
    LET new_size == size * 2
    IN IF IsCoolLoad(t, new_size, MAX_LOAD_FACTOR_ON_REBUILD) THEN new_size
       ELSE NewSizeDouble(t, new_size)

RECURSIVE NewSize(_, _)
NewSize(t, size) ==
    LET new_size == size * SIZE_INCREASING_ON_REBUILD
    IN IF IsCoolLoad(t, new_size, MAX_LOAD_FACTOR_ON_REBUILD) THEN new_size
       ELSE NewSize(t, new_size)

\* The queue Rebuild fills: data_[i] for i in element_positions_, in order.
Drain(t) == [j \in 1 .. Len(t.element_positions_) |-> t.data_[t.element_positions_[j]]]

RECURSIVE InsertElement(_, _, _)
RECURSIVE InsertAll(_, _)
\* while (!elements.empty()) { e = front; pop; InsertElement(e.first, e.second); }
\* The test on placed.i, which always holds, has the front element placed
\* before the rest of the queue is looked at.
InsertAll(t, elements) ==
    IF elements = << >> THEN t
    ELSE LET placed == InsertElement(t, Head(elements).first, Head(elements).second)
         IN IF placed.i >= 0 THEN InsertAll(placed.t, Tail(elements)) ELSE t

Rebuild(t) == InsertAll(Init_(NewSize(t, t.size_)), Drain(t))

\* InsertElement testing the load against MAX_LOAD_FACTOR_ON_REBUILD.
InsertElementEarly(t, k, v) ==
    RobinHoodGetKeyIndex(
        IF ~IsCoolLoad(t, t.size_, MAX_LOAD_FACTOR_ON_REBUILD) THEN Rebuild(t) ELSE t, k, v)

InsertElement(t, k, v) ==
    RobinHoodGetKeyIndex(
        IF ~IsCoolLoad(t, t.size_, MAX_LOAD_FACTOR) THEN Rebuild(t) ELSE t, k, v)

\* SwapInElementPositions without the swap of index_in_element_positions_.
SwapOnlyElementPositions(t, i, j) ==
    [t EXCEPT !.element_positions_ =
                  [@ EXCEPT ![i + 1] = t.element_positions_[j + 1],
                            ![j + 1] = t.element_positions_[i + 1]]]

\* i, j are 0-based indices into element_positions_ (a 1-based sequence here).
SwapInElementPositions(t, i, j) ==
    LET pi == t.element_positions_[i + 1]
        pj == t.element_positions_[j + 1]
    IN [t EXCEPT !.index_in_element_positions_ =
                     [@ EXCEPT ![pi] = t.index_in_element_positions_[pj],
                               ![pj] = t.index_in_element_positions_[pi]],
                 !.element_positions_ = [@ EXCEPT ![i + 1] = pj, ![j + 1] = pi]]

\* DeleteElementByPosition up to the test of need_fix (lines 289-295).
Unlink(t, position) ==
    LET i == t.index_in_element_positions_[position]
        back == Len(t.element_positions_) - 1
        s == SwapInElementPositions([t EXCEPT !.free_places_[position] = TRUE], i, back)
    IN [s EXCEPT !.element_positions_ = SubSeq(@, 1, back),
                 !.element_count_ = @ - 1]

RECURSIVE DeleteElementByPosition(_, _, _)

\* The first loop of FixPosition: evicts the occupied run that starts at i.
RECURSIVE EvictRun(_, _, _)
EvictRun(t, elements, i) ==
    IF t.free_places_[i] THEN [t |-> t, elements |-> elements]
    ELSE EvictRun(DeleteElementByPosition(t, i, FALSE), Append(elements, t.data_[i]),
                  NextSlot(t, i))

\* FixPosition with if in place of the first while: only the element right
\* behind the freed slot is evicted and re-placed.
FixPositionFirst(t, position) ==
    LET i == NextSlot(t, position)
    IN IF t.free_places_[i] THEN t
       ELSE InsertAll(DeleteElementByPosition(t, i, FALSE), <<t.data_[i]>>)

\* FixPosition that leaves the run after the freed slot where it is.
FixPositionNoRepair(t, position) == t

FixPosition(t, position) ==
    LET e == EvictRun(t, << >>, NextSlot(t, position))
    IN InsertAll(e.t, e.elements)

DeleteElementByPosition(t, position, need_fix) ==
    IF need_fix THEN FixPosition(Unlink(t, position), position)
    ELSE Unlink(t, position)

DeleteElementByIndex(t, i) ==
    DeleteElementByPosition(t, t.element_positions_[i + 1], TRUE)

\* ------------------------------------------------------------ public members
size(t) == t.element_count_
empty(t) == t.element_count_ = 0

\* Iterators are their index_ into element_positions_.
begin(t) == 0
end(t) == Len(t.element_positions_)

\* insert that assigns the value when it finds the key.
insertOverwrite(t, k, v) ==
    IF ~t.free_places_[GetKeyIndex(t, k)]
    THEN InsertByIndex(t, GetKeyIndex(t, k), k, v, 1)
    ELSE InsertElement(t, k, v).t

insert(t, k, v) ==
    IF ~t.free_places_[GetKeyIndex(t, k)] THEN t
    ELSE InsertElement(t, k, v).t

erase(t, k) ==
    LET i == GetKeyIndex(t, k)
    IN IF t.free_places_[i] THEN t
       ELSE DeleteElementByPosition(t, i, TRUE)

\* find without the test of free_places_[i].
findUnchecked(t, k) == t.index_in_element_positions_[GetKeyIndex(t, k)]

find(t, k) ==
    LET i == GetKeyIndex(t, k)
    IN IF t.free_places_[i] THEN end(t)
       ELSE t.index_in_element_positions_[i]

\* operator[]: the table afterwards and the slot i of the returned data_[i].second.
operator_index(t, k) ==
    LET i == GetKeyIndex(t, k)
    IN IF t.free_places_[i] THEN InsertElement(t, k, DefaultValue)
       ELSE [t |-> t, i |-> i]

\* at without the test of free_places_[i].
atUnchecked(t, k) ==
    [thrown |-> FALSE, value |-> t.data_[GetKeyIndex(t, k)].second]

\* at: thrown, or the value returned.
at(t, k) ==
    LET i == GetKeyIndex(t, k)
    IN IF t.free_places_[i] THEN [thrown |-> TRUE, value |-> DefaultValue]
       ELSE [thrown |-> FALSE, value |-> t.data_[i].second]

\* clear as Init(DEFAULT_SIZE): the table is emptied by re-initialising it.
clearReinit(t) == Init_(DEFAULT_SIZE)

\* clear with if in place of while: one element is deleted.
clearOnce(t) ==
    IF t.element_positions_ = << >> THEN t
    ELSE DeleteElementByIndex(t, 0)

RECURSIVE clear(_)
clear(t) ==
    IF t.element_positions_ = << >> THEN t
    ELSE clear(DeleteElementByIndex(t, 0))

\* ------------------------------------------------------------ actions
Install(t) ==
    /\ size_' = t.size_
    /\ element_count_' = t.element_count_
    /\ data_' = t.data_
    /\ psl_' = t.psl_
    /\ free_places_' = t.free_places_
    /\ index_in_element_positions_' = t.index_in_element_positions_
    /\ element_positions_' = t.element_positions_

\* The fields of a free slot are dead: the source reads data_[i], psl_[i] and
\* index_in_element_positions_[i] only under !free_places_[i] or for an i taken
\* from element_positions_, and InsertByIndex (lines 198-203) writes all three
\* when it occupies the slot.  After a call that frees slots the state keeps
\* the fields of the free slots at their value-initialised content, so that
\* tables no member function can tell apart are one state.
Live(t) ==
    [t EXCEPT !.data_ = [i \in DOMAIN @ |->
                            IF t.free_places_[i]
                            THEN [first |-> DefaultKey, second |-> DefaultValue]
                            ELSE @[i]],
              !.psl_ = [i \in DOMAIN @ |-> IF t.free_places_[i] THEN 0 ELSE @[i]],
              !.index_in_element_positions_ =
                  [i \in DOMAIN @ |-> IF t.free_places_[i] THEN 0 ELSE @[i]]]

Unchanged ==
    UNCHANGED <<size_, element_count_, data_, psl_, free_places_,
                index_in_element_positions_, element_positions_>>

Called(o, k, v, r, th) ==
    /\ op' = o
    /\ key' = k
    /\ value' = v
    /\ ret' = r
    /\ thrown' = th
    /\ input' = << >>
    /\ old' = [size_ |-> size_, element_count_ |-> element_count_]

\* The callers' discipline, on what the caller has put into the map (ref).  The
\* filler keys are bulk-loaded in ascending order into a map that holds no
\* free key; while the bulk load is under way nothing else is called; every
\* other call passes a free key.
Loaded == {k \in FillKeys : ref[k] # Absent}
Loading == Loaded # {} /\ Loaded # FillKeys
NextFill ==
    IF \E k \in FreeKeys : ref[k] # Absent THEN {}
    ELSE {k \in FillKeys : ref[k] = Absent /\ \A j \in FillKeys : j < k => ref[j] # Absent}
Args == IF Loading THEN {} ELSE FreeKeys

\* ref after the calls insert(p) for the pairs p of s, in order.
RECURSIVE RefOf(_, _)
RefOf(r, s) ==
    IF s = << >> THEN r
    ELSE RefOf(IF r[Head(s).first] = Absent
               THEN [r EXCEPT ![Head(s).first] = Head(s).second] ELSE r,
               Tail(s))

\* The state after a constructor given the sequence s has built the table t.
Constructed(o, t, s) ==
    /\ size_ = t.size_
    /\ element_count_ = t.element_count_
    /\ data_ = t.data_
    /\ psl_ = t.psl_
    /\ free_places_ = t.free_places_
    /\ index_in_element_positions_ = t.index_in_element_positions_
    /\ element_positions_ = t.element_positions_
    /\ op = o
    /\ key = 0
    /\ value = 0
    /\ ret = 0
    /\ thrown = FALSE
    /\ input = s
    /\ ref = RefOf([k \in Keys |-> Absent], s)
    /\ calls = 0
    /\ old = [size_ |-> t.size_, element_count_ |-> t.element_count_]

\* explicit HashMap(Hash hash = Hash())
HashMapDefault == Init_(DEFAULT_SIZE)

\* HashMap(ForwardIterator begin, ForwardIterator end, Hash hash = Hash())
HashMapRange(s) == InsertAll(Init_(DEFAULT_SIZE), s)

\* HashMap(std::initializer_list<std::pair<KeyType, ValueType>>, Hash hash = Hash())
HashMapList(s) == InsertAll(Init_(DEFAULT_SIZE), s)

Init == Constructed("HashMap", HashMapDefault, << >>)

InitCtor ==
    \/ Init
    \/ \E s \in Inputs : Constructed("HashMap(range)", HashMapRange(s), s)
    \/ \E s \in Inputs : Constructed("HashMap(list)", HashMapList(s), s)

Insert ==
    \E k \in Args, v \in Values :
        /\ Install(insert(Self, k, v))
        /\ Called("insert", k, v, 0, FALSE)
        /\ ref' = IF ref[k] = Absent THEN [ref EXCEPT ![k] = v] ELSE ref

\* insert() of the bulk load: the next filler key, with value = key * 2.
Load ==
    \E k \in NextFill :
        /\ Install(insert(Self, k, FillValue(k)))
        /\ Called("insert", k, FillValue(k), 0, FALSE)
        /\ ref' = IF ref[k] = Absent THEN [ref EXCEPT ![k] = FillValue(k)] ELSE ref

Erase ==
    \E k \in Args :
        /\ Install(Live(erase(Self, k)))
        /\ Called("erase", k, 0, GetKeyIndex(Self, k), FALSE)
        /\ ref' = [ref EXCEPT ![k] = Absent]

Find ==
    \E k \in Args :
        /\ Unchanged
        /\ Called("find", k, 0, find(Self, k), FALSE)
        /\ ref' = ref

Index ==
    \E k \in Args :
        LET r == operator_index(Self, k)
        IN /\ Install(r.t)
           /\ Called("operator[]", k, 0, r.i, FALSE)
           /\ ref' = IF ref[k] = Absent THEN [ref EXCEPT ![k] = DefaultValue] ELSE ref

At ==
    \E k \in Args :
        LET r == at(Self, k)
        IN /\ Unchanged
           /\ Called("at", k, 0, r.value, r.thrown)
           /\ ref' = ref

Clear ==
    /\ ~Loading
    /\ Install(Live(clear(Self)))
    /\ Called("clear", 0, 0, 0, FALSE)
    /\ ref' = [k \in Keys |-> Absent]

Next ==
    \/ Insert /\ UNCHANGED calls
    \/ Load /\ UNCHANGED calls
    \/ Erase /\ UNCHANGED calls
    \/ Find /\ UNCHANGED calls
    \/ Index /\ UNCHANGED calls
    \/ At /\ UNCHANGED calls
    \/ Clear /\ UNCHANGED calls

\* At most MaxCalls calls are made on a table.
Counted == calls < MaxCalls /\ calls' = calls + 1

NextCtor ==
    \/ Counted /\ Insert
    \/ Counted /\ Load
    \/ Counted /\ Erase
    \/ Counted /\ Find
    \/ Counted /\ Index
    \/ Counted /\ At
    \/ Counted /\ Clear

\* A default-constructed table and the calls on it.
Spec == Init /\ [][Next]_vars

\* The scenario of keys 1 .. 100 inserted in ascending order into a
\* default-constructed table, each with value = key * 2, and at() called on
\* some of them along the way.
ScenarioKeys == 1 .. 100
ScenarioProbes == {1, 57, 100}

InsertScenario ==
    \E k \in ScenarioKeys :
        /\ k = size(Self) + 1
        /\ Install(insert(Self, k, FillValue(k)))
        /\ Called("insert", k, FillValue(k), 0, FALSE)
        /\ UNCHANGED <<ref, calls>>

AtScenario ==
    \E k \in ScenarioProbes :
        LET r == at(Self, k)
        IN /\ Unchanged
           /\ Called("at", k, 0, r.value, r.thrown)
           /\ UNCHANGED <<ref, calls>>

NextScenario ==
    \/ InsertScenario
    \/ AtScenario

SpecScenario == Init /\ [][NextScenario]_vars

\* A table built by any of the three constructors and up to MaxCalls calls on it.
SpecCtor == InitCtor /\ [][NextCtor]_vars

\* ------------------------------------------------------------ observations
\* What lookup tells of a table: key -> the value at() returns, or Absent.
Content(t) == [k \in Keys |-> IF at(t, k).thrown THEN Absent ELSE at(t, k).value]
ContentNow == Content(Self)

\* The keys a full begin() .. end() iteration yields, in order.
Yielded(t) == [j \in 1 .. end(t) |-> t.data_[t.element_positions_[j]].first]

\* The fields of the table are left as they are.
TableUnchanged ==
    /\ size_' = size_
    /\ element_count_' = element_count_
    /\ data_' = data_
    /\ psl_' = psl_
    /\ free_places_' = free_places_
    /\ index_in_element_positions_' = index_in_element_positions_
    /\ element_positions_' = element_positions_

\* The table insert() builds from the pairs of s, called in order on an empty table.
RECURSIVE InsertEach(_, _)
InsertEach(t, s) ==
    IF s = << >> THEN t
    ELSE LET next == insert(t, Head(s).first, Head(s).second)
         IN IF next.size_ > 0 THEN InsertEach(next, Tail(s)) ELSE t

\* ------------------------------------------------------------ claims

\* C1 (round trip): on a default-constructed table every key that was inserted
\* (and not erased since) is found by find and at, and at returns the value it
\* was inserted with, also after the table was rebuilt.
C1_RoundTrip ==
    \A k \in Keys :
        ref[k] # Absent =>
            /\ find(Self, k) # end(Self)
            /\ ~at(Self, k).thrown
            /\ at(Self, k).value = ref[k]

\* C1 witness: every key has been inserted, across a rebuild to 256 slots, and
\* two keys that collide lie on one probe chain.
C1_Witness ==
    /\ op = "insert"
    /\ size_ = DEFAULT_SIZE * SIZE_INCREASING_ON_REBUILD
    /\ \A k \in Keys : ref[k] # Absent
    /\ \E i \in DOMAIN psl_ : ~free_places_[i] /\ psl_[i] > 1

\* C2 (erase repairs the chain): erase(k) leaves every other key found with
\* the value it had, removes exactly the element of k, and a key inserted
\* right after an erase is found.
C2_EraseKeepsOthers ==
    [][/\ op' = "erase" =>
            /\ \A k \in Keys \ {key'} : ContentNow'[k] = ContentNow[k]
            /\ element_count_' =
                   element_count_ - (IF ContentNow[key'] # Absent THEN 1 ELSE 0)
       /\ (op = "erase" /\ op' = "insert") => ContentNow'[key'] # Absent]_vars

\* C2 witness: 255 was erased from slot 0, the middle of the chain 63, 255, 511
\* on slots 63, 0, 1, and 511 has moved up to slot 0.
C2_Witness ==
    /\ op = "erase"
    /\ key = 255
    /\ ret = 0
    /\ size_ = DEFAULT_SIZE
    /\ ~free_places_[63] /\ data_[63].first = 63
    /\ ~free_places_[0] /\ data_[0].first = 511

\* C3 (delete then find), as claimed: after erase(k), find(k) is end(), and
\* size() has dropped by one if k was found before and is unchanged otherwise.
C3_DeleteThenFind ==
    [][op' = "erase" =>
          /\ find(Self, key)' = end(Self)'
          /\ size(Self)' = size(Self) - (IF find(Self, key') # end(Self) THEN 1 ELSE 0)]_vars

\* C4 (load invariant), as claimed: after an insert, element_count * 100 is
\* below 80 * capacity.
C4_LoadInvariant ==
    op = "insert" => element_count_ * 100 < MAX_LOAD_FACTOR * size_

\* C5 (resize correctness), as claimed: the rebuild an insertion triggers keeps
\* every key with its value, makes no other key found and keeps element_count.
C5_ResizeKeeps ==
    [][(op' \in {"insert", "operator[]"} /\ size_' # size_) =>
          /\ Content(Rebuild(Self)) = ContentNow
          /\ Rebuild(Self).element_count_ = element_count_]_vars

\* C6 (iteration completeness), as claimed: a full iteration yields exactly the
\* keys find finds, none twice, and as many entries as size().
C6_IterationComplete ==
    /\ {Yielded(Self)[j] : j \in 1 .. end(Self)} = {k \in Keys : find(Self, k) # end(Self)}
    /\ \A i, j \in 1 .. end(Self) : Yielded(Self)[i] = Yielded(Self)[j] => i = j
    /\ end(Self) - begin(Self) = size(Self)

\* C7 (idempotent insert): insert(k, v2) on a table that holds k changes no
\* field of the table: the value of k, size(), every other entry and the
\* capacity stay.
C7_InsertKeeps ==
    [][(op' = "insert" /\ ContentNow[key'] # Absent) => TableUnchanged]_vars

\* C7 witness: insert was called with a value other than the one its key holds.
C7_Witness ==
    /\ op = "insert"
    /\ ContentNow[key] # Absent
    /\ ContentNow[key] # value

\* C8 (construction is repeated insertion), as claimed: a table constructed
\* from a sequence of pairs has the keys, values and size() of the table that
\* insert() builds from the same pairs.
C8_CtorIsRepeatedInsert ==
    op \in {"HashMap(range)", "HashMap(list)"} =>
        /\ ContentNow = Content(InsertEach(Init_(DEFAULT_SIZE), input))
        /\ size(Self) = size(InsertEach(Init_(DEFAULT_SIZE), input))

\* C9 (indexed access): operator[] on a key the table holds changes nothing and
\* refers to the slot of that key; on an absent key it adds one element and
\* the slot it refers to holds the key with the default value.
C9_IndexSlot ==
    [][op' = "operator[]" =>
          /\ ~free_places_'[ret']
          /\ data_'[ret'].first = key'
          /\ IF ContentNow[key'] # Absent
             THEN TableUnchanged /\ data_[ret'].second = ContentNow[key']
             ELSE /\ element_count_' = element_count_ + 1
                  /\ data_'[ret'].second = DefaultValue]_vars

\* C9 witness: operator[] placed a new key in a rebuilt table by displacing
\* another element: the slot it refers to is not the slot occupied last.
C9_Witness ==
    /\ op = "operator[]"
    /\ size_ > DEFAULT_SIZE
    /\ ret # element_positions_[Len(element_positions_)]
    /\ data_[ret].first = key
    /\ psl_[ret] > 1

\* C10 (not found): at(k) throws exactly when no occupied slot holds k, else
\* it returns the value stored with k; it changes no field; no other call
\* throws.
C10_AtThrows ==
    [][/\ op' = "at" =>
            /\ thrown' <=> ~\E i \in DOMAIN data_ : ~free_places_[i] /\ data_[i].first = key'
            /\ ~thrown' => \E i \in DOMAIN data_ :
                               /\ ~free_places_[i]
                               /\ data_[i] = [first |-> key', second |-> ret']
            /\ TableUnchanged
       /\ op' # "at" => ~thrown']_vars

\* C10 witness: at threw for an absent key whose home slot is occupied.
C10_Witness ==
    /\ op = "at"
    /\ thrown
    /\ ~free_places_[Hash(key) % size_]

\* C11 (clear): clear() leaves size() = 0, empty(), begin() = end() and find(k)
\* = end() for every key; every DeleteElementByIndex(0) of its loop shortens
\* element_positions_ by one, so the loop ends; a key inserted right after
\* clear() is found with its value.
C11_ClearEmpties ==
    [][/\ op' = "clear" =>
            /\ size(Self)' = 0
            /\ empty(Self)'
            /\ begin(Self)' = end(Self)'
            /\ \A k \in Keys : find(Self, k)' = end(Self)'
       /\ element_positions_ # << >> =>
            Len(DeleteElementByIndex(Self, 0).element_positions_)
                = Len(element_positions_) - 1
       /\ (op = "clear" /\ op' = "insert") =>
            /\ find(Self, key)' # end(Self)'
            /\ ContentNow'[key'] = value']_vars

\* C11 witness: clear() was called on a rebuilt table that held all the keys.
C11_Witness ==
    /\ op = "clear"
    /\ old.size_ = DEFAULT_SIZE * SIZE_INCREASING_ON_REBUILD
    /\ old.element_count_ = Cardinality(Keys)
    /\ element_count_ = 0

\* C12 (absent key): erase(k) and find(k) of a key no occupied slot holds leave
\* every field of the table as it is, and find returns end().
C12_AbsentNoOp ==
    [][(/\ op' \in {"erase", "find"}
        /\ ~\E i \in DOMAIN data_ : ~free_places_[i] /\ data_[i].first = key') =>
           /\ TableUnchanged
           /\ erase(Self, key') = Self
           /\ op' = "find" => ret' = end(Self)]_vars

\* C12 witness: erase looked up an absent key whose probe ran over occupied
\* slots to a free one, in a table that holds elements.
C12_Witness ==
    /\ op = "erase"
    /\ free_places_[ret]
    /\ ret # Hash(key) % size_
    /\ element_count_ = old.element_count_
    /\ element_count_ > 0

\* C13 (scenario): once keys 1 .. 100 are inserted in order with value = key * 2
\* into a default-constructed table, the capacity is 256 (so the table was
\* rebuilt), size() is 100 and at(57) returns 114.
C13_Scenario ==
    /\ (op = "insert" /\ key = 100) =>
           /\ size_ = 256
           /\ size_ # DEFAULT_SIZE
           /\ size(Self) = 100
           /\ at(Self, 57) = [thrown |-> FALSE, value |-> 114]
    /\ (op = "at" /\ key = 57 /\ size(Self) = 100) => (~thrown /\ ret = 114)

\* C13 witness: at(57) was called after the hundredth insert.
C13_Witness ==
    /\ op = "at"
    /\ key = 57
    /\ ~thrown
    /\ size(Self) = 100
    /\ \A k \in ScenarioKeys : ~at(Self, k).thrown

\* C14 (index consistency): element_count_ is the number of occupied slots and
\* the length of element_positions_; element_positions_ lists exactly the
\* occupied slots, none twice; element_positions_[index_in_element_positions_[s]]
\* is s for every occupied slot s.
C14_IndexConsistent ==
    LET occupied == {s \in DOMAIN free_places_ : ~free_places_[s]}
    IN /\ element_count_ = Cardinality(occupied)
       /\ element_count_ = Len(element_positions_)
       /\ {element_positions_[j] : j \in 1 .. Len(element_positions_)} = occupied
       /\ \A i, j \in 1 .. Len(element_positions_) :
              element_positions_[i] = element_positions_[j] => i = j
       /\ \A s \in occupied :
              /\ index_in_element_positions_[s] + 1 \in 1 .. Len(element_positions_)
              /\ element_positions_[index_in_element_positions_[s] + 1] = s

\* C14 witness: in the rebuilt table an erase removed one of three free keys
\* held besides the fillers, and a displaced element is still held.
C14_Witness ==
    /\ op = "erase"
    /\ size_ > DEFAULT_SIZE
    /\ old.element_count_ = Cardinality(FillKeys) + 3
    /\ element_count_ = old.element_count_ - 1
    /\ \E s \in DOMAIN psl_ : ~free_places_[s] /\ psl_[s] > 1

\* C15 (probe length): for every occupied slot s holding key k, psl_[s] is the
\* distance of s from the home slot of k, wrapping at the capacity, plus one.
C15_ProbeLength ==
    \A s \in DOMAIN psl_ :
        ~free_places_[s] =>
            psl_[s] = ((s + size_ - (Hash(data_[s].first) % size_)) % size_) + 1

\* C15 witness: in the rebuilt table, after an erase re-placed the run behind
\* the freed slot, an element lies past the wrap-around, two slots from home.
C15_Witness ==
    /\ op = "erase"
    /\ size_ > DEFAULT_SIZE
    /\ element_count_ < old.element_count_
    /\ \E s \in DOMAIN psl_ :
           /\ ~free_places_[s]
           /\ psl_[s] = 2
           /\ s < Hash(data_[s].first) % size_

\* C16 (resize policy): an insert or operator[] of an absent key changes the
\* capacity exactly when element_count * 100 >= 80 * capacity held before it;
\* the new capacity is the least capacity * 4^j, j >= 1, with
\* element_count * 100 < 50 * new capacity; no re-insertion of a drained
\* element rebuilds again, which would leave a capacity above the least one
\* (a rebuild only grows the capacity), and every drained element is kept.
C16_ResizePolicy ==
    [][(/\ op' \in {"insert", "operator[]"}
        /\ ~\E i \in DOMAIN data_ : ~free_places_[i] /\ data_[i].first = key') =>
           /\ (size_' # size_) <=> (element_count_ * 100 >= 80 * size_)
           /\ size_' # size_ =>
                /\ \E j \in 1 .. 3 :
                       /\ size_' = size_ * (4 ^ j)
                       /\ element_count_ * 100 < 50 * size_'
                       /\ \A h \in 1 .. (j - 1) :
                              element_count_ * 100 >= 50 * size_ * (4 ^ h)
                /\ Rebuild(Self).element_count_ = element_count_
                /\ element_count_' = element_count_ + 1]_vars

\* C16 witness: an operator[] on an absent key found 52 elements in 64 slots,
\* rebuilt to 256 slots and placed its element.
C16_Witness ==
    /\ op = "operator[]"
    /\ old = [size_ |-> 64, element_count_ |-> 52]
    /\ size_ = 256
    /\ element_count_ = 53

\* C17 (capacity frame): the capacity changes only in an insert or operator[]
\* of a key the table does not hold; erase, with the re-placement of the
\* evicted run through InsertElement, and clear leave it as it is.
C17_CapacityFrame ==
    [][/\ size_' # size_ =>
            /\ op' \in {"insert", "operator[]"}
            /\ ~\E i \in DOMAIN data_ : ~free_places_[i] /\ data_[i].first = key'
       /\ op' \in {"erase", "clear"} =>
            /\ size_' = size_
            /\ erase(Self, key').size_ = size_
            /\ clear(Self).size_ = size_]_vars

\* C17 witness: erase was called at 52 elements in 64 slots, where the load
\* test of InsertElement fails, and re-placed an element into the freed slot.
C17_Witness ==
    /\ op = "erase"
    /\ old = [size_ |-> 64, element_count_ |-> 52]
    /\ size_ = 64
    /\ element_count_ = 51
    /\ ~free_places_[ret]

\* The slots on the wrap-around path from the home slot of key k to slot s.
ProbePath(k, s) ==
    {((Hash(k) % size_) + d) % size_ :
        d \in 0 .. ((s + size_ - (Hash(k) % size_)) % size_)}

\* C18 (contiguity): for every occupied slot s holding key k, every slot on
\* the wrap-around path from the home slot of k to s is occupied.
C18_Contiguous ==
    \A s \in DOMAIN data_ :
        ~free_places_[s] =>
            \A p \in ProbePath(data_[s].first, s) : ~free_places_[p]

\* C18 witness: an erase in the 64-slot table that holds the fillers freed the
\* home slot of a chain, and an element is held past the wrap-around.
C18_Witness ==
    /\ op = "erase"
    /\ size_ = DEFAULT_SIZE
    /\ element_count_ < old.element_count_
    /\ element_count_ > Cardinality(FillKeys)
    /\ ret = Hash(key) % size_
    /\ \E s \in DOMAIN data_ :
           /\ ~free_places_[s]
           /\ s < Hash(data_[s].first) % size_
           /\ Cardinality(ProbePath(data_[s].first, s)) = 2

\* C19 (a free slot, termination): in every reachable state element_count_ is
\* below the capacity and a slot is free; hence the scan of GetKeyIndex ends,
\* for every key, on a free slot or on the key, the growth loop of Rebuild
\* ends on a larger capacity, and clear ends on the empty table.
C19_FreeSlot ==
    /\ element_count_ < size_
    /\ \E i \in DOMAIN free_places_ : free_places_[i]
    /\ \A k \in Keys :
           \/ free_places_[GetKeyIndex(Self, k)]
           \/ data_[GetKeyIndex(Self, k)].first = k
    /\ NewSize(Self, size_) > size_
    /\ empty(clear(Self))

\* C19 witness: the fullest table, 52 elements in 64 slots, and the scan for
\* an absent key runs over occupied slots to a free one.
C19_Witness ==
    /\ op = "insert"
    /\ size_ = 64
    /\ element_count_ = 52
    /\ \E k \in Keys :
           /\ free_places_[GetKeyIndex(Self, k)]
           /\ GetKeyIndex(Self, k) # Hash(k) % size_

\* C20 (Robin Hood ordering): for any two cyclically adjacent occupied slots s
\* and s + 1 (mod capacity), psl_[s + 1] <= psl_[s] + 1.
C20_Ordering ==
    \A s \in DOMAIN psl_ :
        (~free_places_[s] /\ ~free_places_[(s + 1) % size_]) =>
            psl_[(s + 1) % size_] <= psl_[s] + 1

\* C20 witness: after an erase re-placed a run, an element at its home slot
\* directly follows an element displaced past the wrap-around.
C20_Witness ==
    /\ op = "erase"
    /\ element_count_ < old.element_count_
    /\ \E s \in DOMAIN psl_ :
           /\ ~free_places_[s]
           /\ ~free_places_[(s + 1) % size_]
           /\ psl_[s] > 1
           /\ psl_[(s + 1) % size_] <= psl_[s]
           /\ s < Hash(data_[s].first) % size_

====
